---- MODULE Spec2Model ----
(***************************************************************************)
(* State-machine model of the User API accounts module                     *)
(* (openedx/core/djangoapps/user_api/accounts/api.py): the relational      *)
(* store it reads and writes (auth_user, profile, registration, social     *)
(* auth, preferences), the comments service, the mail outbox, and one      *)
(* action per public entry point.                                          *)
(*                                                                         *)
(* Text values (usernames, passwords, emails, keys) are sequences of       *)
(* one-character strings, so that length checks, character checks and      *)
(* concatenation are computed as the code computes them.                   *)
(***************************************************************************)
EXTENDS Integers, Sequences, FiniteSets, TLC

VARIABLES
    users,          \* auth_user rows: id -> row
    profiles,       \* UserProfile rows: user id -> row
    registrations,  \* Registration rows: set of [activation_key, user]
    preferences,    \* user preferences: user id -> account_privacy value
    pendingEmail,   \* deferred email-change requests: user id -> new email
    socialAuth,     \* UserSocialAuth rows: set of user ids
    socialMapping,  \* UserSocialAuthMapping rows: set of user ids
    forumUsers,     \* comments-service user records: user id -> username
    threads,        \* comments-service threads: thread id -> thread
    retired,        \* author usernames the comments service has retired
    outbox,         \* mails handed to the mail transport, in order
    tx,             \* create_account calls in flight: caller -> transaction
    last            \* the call that ended last and its outcome

vars == <<users, profiles, registrations, preferences, pendingEmail, socialAuth,
          socialMapping, forumUsers, threads, retired, outbox, tx, last>>

store == <<users, profiles, registrations, preferences, pendingEmail, socialAuth,
           socialMapping>>

forum == <<forumUsers, threads, retired>>

----------------------------------------------------------------------------
(* Bounds of the model *)

MaxUsers == 2       \* auth_user rows ever inserted
MaxHistory == 1     \* entries of a profile's old_names log
MaxOutbox == 2      \* mails in the outbox
MaxThreads == 1     \* threads in the comments service
MaxCallers == 2     \* create_account calls in flight at once

(* Length limits of accounts/__init__.py, imported by api.py *)
USERNAME_MIN_LENGTH == 2
USERNAME_MAX_LENGTH == 30
PASSWORD_MIN_LENGTH == 2
PASSWORD_MAX_LENGTH == 75
EMAIL_MIN_LENGTH == 3
EMAIL_MAX_LENGTH == 254

----------------------------------------------------------------------------
(* Text *)

Repeat(c, n) == [i \in 1..n |-> c]

DigitChars == <<"0", "1", "2", "3", "4", "5", "6", "7", "8", "9">>

RECURSIVE str(_)
str(n) == IF n < 10 THEN <<DigitChars[n + 1]>>
          ELSE str(n \div 10) \o <<DigitChars[(n % 10) + 1]>>

\* a value that is not a string (None)
None == <<"<None>">>

isinstance_basestring(x) == x # None

SlugChars == {"a", "b", "c", "o", "p", "w", "x", "y", "0", "1", "2", "-", "_"}

\* django.core.validators.validate_slug: letters, digits, hyphen, underscore only
validate_slug(s) == Len(s) > 0 /\ \A i \in 1..Len(s) : s[i] \in SlugChars

AtPositions(s) == {i \in 1..Len(s) : s[i] = "@"}

\* django.core.validators.validate_email: one "@", a non-empty local part and a
\* dotted domain whose labels are not empty
validate_email(s) ==
    /\ Cardinality(AtPositions(s)) = 1
    /\ LET at == CHOOSE i \in AtPositions(s) : TRUE
       IN /\ at > 1
          /\ at + 2 < Len(s)
          /\ s[at + 1] # "."
          /\ s[Len(s)] # "."
          /\ \E j \in (at + 2)..(Len(s) - 1) : s[j] = "."
          /\ \A j \in 1..Len(s) : s[j] # " "

\* hashlib.md5(mask).hexdigest(): a digest, a function of the hashed text alone
md5_hexdigest(mask) == <<"md5">> \o mask

----------------------------------------------------------------------------
(* Inputs the calls are drawn from *)

bob == <<"b", "o", "b">>
bob2 == <<"2", "b", "o", "b">>
ghost == <<"x", "y">>

mailA == <<"a", "@", "x", ".", "c">>
mailB == <<"b", "@", "x", ".", "c">>
mailC == <<"c", "@", "x", ".", "c">>

\* arguments of create_account: well-formed, too short, too long, ill-formed, not text
UsernameInputs ==
    {bob, bob2, <<"b">>, <<"b", " ", "b">>, Repeat("a", USERNAME_MAX_LENGTH + 1), None}

PasswordInputs ==
    {<<"p", "w">>, bob, <<"p">>, Repeat("p", PASSWORD_MAX_LENGTH + 1), None}

EmailInputs ==
    {mailA, mailB, <<"a", "b", "c">>, <<"a", "@">>,
     Repeat("a", EMAIL_MAX_LENGTH - 3) \o <<"@", "x", ".", "c">>, None}

----------------------------------------------------------------------------
(* The store *)

Ids == DOMAIN users

UserRow(username, email) ==
    [username |-> username, email |-> email, is_active |-> FALSE, is_staff |-> FALSE,
     first_name |-> "", last_name |-> ""]

\* UserProfile(user=user): an empty profile with default values
EmptyProfile ==
    [name |-> <<>>, old_names |-> <<>>, msa_migration |-> FALSE,
     language_proficiencies |-> <<>>]

\* User.objects.filter(username=username)
ByUsername(username) == {i \in Ids : users[i].username = username}

\* User.objects.filter(email=email)
ByEmail(email) == {i \in Ids : users[i].email = email}

\* the unique indexes of auth_user (username, email): would a row with these values,
\* written as row `self` (0 for an insert), violate one of them
IntegrityError(rows, self, username, email) ==
    \E i \in DOMAIN rows :
        i # self /\ (rows[i].username = username \/ rows[i].email = email)

\* the id an insert into auth_user gets (auto-increment)
NewId(rows) == Cardinality(DOMAIN rows) + 1

Empty == [x \in {} |-> 0]

Put(f, k, v) == [x \in DOMAIN f \cup {k} |-> IF x = k THEN v ELSE f[x]]

Drop(f, k) == [x \in DOMAIN f \ {k} |-> f[x]]

NoCall ==
    [op |-> "none", result |-> "none", at |-> "none", requester |-> 0, target |-> <<>>,
     errs |-> {}, fields |-> {}, forced |-> FALSE, key |-> <<>>, view |-> "none",
     views |-> <<>>, events |-> <<>>, email |-> <<>>, password |-> <<>>,
     conflicts |-> <<>>, force_email_update |-> FALSE, msa_migration_enabled |-> FALSE,
     update |-> <<>>]

Call(op, result) == [NoCall EXCEPT !.op = op, !.result = result]

----------------------------------------------------------------------------
(* Field validators *)

\* _validate_username: TRUE when it raises AccountUsernameInvalid
UsernameInvalid(username) ==
    \/ ~isinstance_basestring(username)
    \/ Len(username) < USERNAME_MIN_LENGTH
    \/ Len(username) > USERNAME_MAX_LENGTH
    \/ ~validate_slug(username)

\* _validate_password: TRUE when it raises AccountPasswordInvalid
PasswordInvalid(password, username) ==
    \/ ~isinstance_basestring(password)
    \/ Len(password) < PASSWORD_MIN_LENGTH
    \/ Len(password) > PASSWORD_MAX_LENGTH
    \/ password = username

\* _validate_email: TRUE when it raises AccountEmailInvalid
EmailInvalid(email) ==
    \/ ~isinstance_basestring(email)
    \/ Len(email) < EMAIL_MIN_LENGTH
    \/ Len(email) > EMAIL_MAX_LENGTH
    \/ ~validate_email(email)

ValidateCredentialsEmailFirst(username, password, email) ==
    IF EmailInvalid(email) THEN "AccountEmailInvalid"
    ELSE IF UsernameInvalid(username) THEN "AccountUsernameInvalid"
    ELSE IF PasswordInvalid(password, username) THEN "AccountPasswordInvalid"
    ELSE "ok"

\* lines 374-376 of create_account: the first validator that raises, or "ok"
ValidateCredentials(username, password, email) ==
    IF UsernameInvalid(username) THEN "AccountUsernameInvalid"
    ELSE IF PasswordInvalid(password, username) THEN "AccountPasswordInvalid"
    ELSE IF EmailInvalid(email) THEN "AccountEmailInvalid"
    ELSE "ok"

\* uuid.uuid4().hex of Registration.register: a fresh, non-empty key
activation_key(id) == <<"k">> \o str(id)

\* user.save() without the except clause: the decorator reports an internal error
user_save_uncaught(rows, username, email) ==
    IF IntegrityError(rows, 0, username, email) THEN "UserAPIInternalError" ELSE "ok"

\* lines 381-384: user.save(), and AccountUserAlreadyExists when the store refuses it
user_save(rows, username, email) ==
    IF IntegrityError(rows, 0, username, email) THEN "AccountUserAlreadyExists" ELSE "ok"

----------------------------------------------------------------------------
(* create_account, as one transaction *)

CreateAccount(username, password, email) ==
    LET verdict == ValidateCredentials(username, password, email)
        id == NewId(users)
    IN  IF verdict # "ok"
        THEN /\ last' = [Call("create", verdict) EXCEPT !.target = username,
                                                       !.password = password,
                                                       !.email = email]
             /\ UNCHANGED <<store, forum, outbox, tx>>
        ELSE IF user_save(users, username, email) # "ok"
        THEN /\ last' = [Call("create", user_save(users, username, email))
                            EXCEPT !.target = username, !.password = password,
                                   !.email = email]
             /\ UNCHANGED <<store, forum, outbox, tx>>
        ELSE /\ id <= MaxUsers
             /\ users' = Put(users, id, UserRow(username, email))
             /\ registrations' =
                    registrations \cup {[activation_key |-> activation_key(id), user |-> id]}
             /\ profiles' = Put(profiles, id, EmptyProfile)
             /\ last' = [Call("create", "ok") EXCEPT !.key = activation_key(id),
                                                     !.target = username,
                                                     !.password = password,
                                                     !.email = email]
             /\ UNCHANGED <<preferences, pendingEmail, socialAuth, socialMapping,
                            forum, outbox, tx>>

----------------------------------------------------------------------------
(* create_account, statement by statement, for callers that run at once.     *)
(* Each call is one database transaction (transaction.atomic): its rows are   *)
(* visible to others at commit, and an insert that meets an uncommitted row   *)
(* with the same unique value waits for that transaction to end.              *)

Callers == 1..MaxCallers

\* the rows other transactions have inserted and not yet committed
InFlight(c) == {d \in DOMAIN tx : d # c /\ tx[d].pc # "save"}

\* lines 374-379: validate, then build the inactive user
CreateBegin(c, username, password, email) ==
    LET verdict == ValidateCredentials(username, password, email)
    IN  /\ c \notin DOMAIN tx
        /\ IF verdict # "ok"
           THEN /\ last' = [Call("create", verdict) EXCEPT !.target = username,
                                                          !.password = password,
                                                          !.email = email]
                /\ UNCHANGED tx
           ELSE /\ tx' = Put(tx, c, [pc |-> "save", username |-> username,
                                     password |-> password, email |-> email,
                                     id |-> 0])
                /\ UNCHANGED last
        /\ UNCHANGED <<store, forum, outbox>>

\* lines 382-385: user.save(), and the rollback when the store refuses the row
CreateSaveUser(c) ==
    /\ c \in DOMAIN tx
    /\ tx[c].pc = "save"
    /\ ~\E d \in InFlight(c) :
           tx[d].username = tx[c].username \/ tx[d].email = tx[c].email
    /\ IF user_save(users, tx[c].username, tx[c].email) # "ok"
       THEN /\ tx' = Drop(tx, c)
            /\ last' = [Call("create", user_save(users, tx[c].username, tx[c].email))
                            EXCEPT !.target = tx[c].username,
                                   !.password = tx[c].password,
                                   !.email = tx[c].email]
       ELSE /\ NewId(users) + Cardinality(InFlight(c)) <= MaxUsers
            /\ tx' = [tx EXCEPT ![c].pc = "register",
                                ![c].id = NewId(users) + Cardinality(InFlight(c))]
            /\ UNCHANGED last
    /\ UNCHANGED <<store, forum, outbox>>

\* lines 389-390: registration.register(user)
CreateRegister(c) ==
    /\ c \in DOMAIN tx
    /\ tx[c].pc = "register"
    /\ tx' = [tx EXCEPT ![c].pc = "profile"]
    /\ UNCHANGED <<store, forum, outbox, last>>

\* line 393: UserProfile(user=user).save()
CreateProfile(c) ==
    /\ c \in DOMAIN tx
    /\ tx[c].pc = "profile"
    /\ tx' = [tx EXCEPT ![c].pc = "return"]
    /\ UNCHANGED <<store, forum, outbox, last>>

\* line 396 and the commit of transaction.atomic
CreateReturn(c) ==
    /\ c \in DOMAIN tx
    /\ tx[c].pc = "return"
    /\ users' = Put(users, tx[c].id, UserRow(tx[c].username, tx[c].email))
    /\ registrations' =
           registrations \cup {[activation_key |-> activation_key(tx[c].id),
                                user |-> tx[c].id]}
    /\ profiles' = Put(profiles, tx[c].id, EmptyProfile)
    /\ tx' = Drop(tx, c)
    /\ last' = [Call("create", "ok") EXCEPT !.key = activation_key(tx[c].id),
                                            !.target = tx[c].username,
                                            !.password = tx[c].password,
                                            !.email = tx[c].email]
    /\ UNCHANGED <<preferences, pendingEmail, socialAuth, socialMapping, forum, outbox>>

----------------------------------------------------------------------------
(* check_account_exists *)

check_account_exists_first_only(username, email) ==
    IF email # None /\ ByEmail(email) # {} THEN <<"email">>
    ELSE IF username # None /\ ByUsername(username) # {} THEN <<"username">>
    ELSE <<>>

\* lines 416-424: the list of conflicting fields; None is an argument not given
check_account_exists(username, email) ==
    (IF email # None /\ ByEmail(email) # {} THEN <<"email">> ELSE <<>>)
        \o (IF username # None /\ ByUsername(username) # {} THEN <<"username">> ELSE <<>>)

CheckAccountExists(username, email) ==
    /\ last' = [Call("check", "ok") EXCEPT !.target = username, !.email = email,
                                          !.conflicts = check_account_exists(username, email)]
    /\ UNCHANGED <<store, forum, outbox, tx>>

----------------------------------------------------------------------------
(* activate_account *)

\* Registration.activate(): marks the registration's user active and saves it
RegistrationActivate(rows, id) == [rows EXCEPT ![id].is_active = TRUE]

registration_for_any(key) == registrations

\* line 442: Registration.objects.get(activation_key=activation_key)
registration_for(key) == {r \in registrations : r.activation_key = key}

ActivateAccount(key) ==
    LET found == registration_for(key)
    IN  IF found = {}
        THEN /\ last' = [Call("activate", "UserNotAuthorized") EXCEPT !.key = key]
             /\ UNCHANGED <<store, forum, outbox, tx>>
        ELSE LET registration == CHOOSE r \in found : TRUE
             IN /\ users' = RegistrationActivate(users, registration.user)
                /\ last' = [Call("activate", "ok") EXCEPT !.key = key]
                /\ UNCHANGED <<profiles, registrations, preferences, pendingEmail,
                               socialAuth, socialMapping, forum, outbox, tx>>

KeyInputs == {activation_key(i) : i \in 1..(MaxUsers + 1)}

----------------------------------------------------------------------------
(* delete_user_account and anonymize_user_discussions *)

\* _get_user_and_profile: the id of the user with this username and a profile, or 0
\* when it raises UserNotFound
get_user_and_profile(username) ==
    IF \E i \in ByUsername(username) : i \in DOMAIN profiles
    THEN CHOOSE i \in ByUsername(username) : i \in DOMAIN profiles
    ELSE 0

\* get_courses(user): the courses of the site
Courses == {"c1"}

\* the calls of anonymize_user_discussions that can raise
FailPoints == {"none", "get_courses", "user_save", "search", "thread_save", "retire"}

\* Thread.search(query_params).collection for one course
ThreadSearch(ths, course, author) ==
    {t \in DOMAIN ths : ths[t].course_id = course /\ ths[t].author_username = author}

\* lines 694-701: the entity as written back by th.save(entity)
AnonymizedThread(thread, new_username) ==
    [thread EXCEPT !.anonymous = TRUE, !.anonymous_to_peers = TRUE,
                   !.author_username = new_username]

\* the bulk "retire threads" request of the comments service, by author username
RetireThreads(old_username) == retired \cup {old_username}

\* anonymize_user_discussions(user, old_username), failing at `fail`: whether it
\* raised and what it left in the comments service
anonymize_user_discussions(id, new_username, old_username, fail) ==
    LET saved == Put(forumUsers, id, new_username)
        hit == UNION {ThreadSearch(threads, c, old_username) : c \in Courses}
        written == [t \in DOMAIN threads |->
                        IF t \in hit THEN AnonymizedThread(threads[t], new_username)
                        ELSE threads[t]]
    IN  IF fail = "get_courses"
        THEN [raised |-> TRUE, forumUsers |-> forumUsers, threads |-> threads,
              retired |-> retired]
        ELSE IF fail = "user_save"
        THEN [raised |-> TRUE, forumUsers |-> forumUsers, threads |-> threads,
              retired |-> retired]
        ELSE IF fail = "search" \/ (fail = "thread_save" /\ hit # {})
        THEN [raised |-> TRUE, forumUsers |-> saved, threads |-> threads,
              retired |-> retired]
        ELSE IF fail = "retire"
        THEN [raised |-> TRUE, forumUsers |-> saved, threads |-> written,
              retired |-> retired]
        ELSE [raised |-> FALSE, forumUsers |-> saved, threads |-> written,
              retired |-> RetireThreads(old_username)]

AnonymizedUserKeepsFlags(row, username, salt) ==
    LET hashed == md5_hexdigest(str(salt) \o username)
    IN  [row EXCEPT !.username = hashed,
                    !.email = hashed \o <<"@deleteduser.com">>,
                    !.first_name = "first_deleted",
                    !.last_name = "last_deleted"]

\* lines 645-651: the anonymized row
AnonymizedUser(row, username, salt) ==
    LET username_mask == str(salt) \o username
        hashed == md5_hexdigest(username_mask)
    IN  [row EXCEPT !.username = hashed,
                    !.email = hashed \o <<"@deleteduser.com">>,
                    !.first_name = "first_deleted",
                    !.last_name = "last_deleted",
                    !.is_active = FALSE,
                    !.is_staff = FALSE]

delete_result_propagates(raised) == IF raised THEN "UserAPIInternalError" ELSE "ok"

\* lines 654-660: what the call returns, whether or not the anonymization raised
delete_result(raised) == "ok"

DeleteUserAccount(username, salt, fail) ==
    LET id == get_user_and_profile(username)
    IN  IF id = 0
        THEN /\ last' = [Call("delete", "UserNotFound") EXCEPT !.target = username]
             /\ UNCHANGED <<store, forum, outbox, tx>>
        ELSE \E row \in {AnonymizedUser(users[id], username, salt)} :
             \E cs \in {anonymize_user_discussions(id, row.username, username, fail)} :
                /\ profiles' = Drop(profiles, id)
                /\ socialAuth' = socialAuth \ {id}
                /\ socialMapping' = socialMapping \ {id}
                /\ IF IntegrityError(users, id, row.username, row.email)
                   THEN /\ last' = [Call("delete", "UserAPIInternalError")
                                        EXCEPT !.target = username]
                        /\ UNCHANGED <<users, forum>>
                   ELSE /\ users' = [users EXCEPT ![id] = row]
                        /\ forumUsers' = cs.forumUsers
                        /\ threads' = cs.threads
                        /\ retired' = cs.retired
                        /\ last' = [Call("delete", delete_result(cs.raised))
                                        EXCEPT !.target = username,
                                               !.at = IF cs.raised THEN fail ELSE "none"]
                /\ UNCHANGED <<registrations, preferences, pendingEmail, outbox, tx>>

----------------------------------------------------------------------------
(* get_account_settings *)

\* settings.ACCOUNT_VISIBILITY_CONFIGURATION: admin_fields, shareable_fields and
\* public_fields
AdminFields == {"username", "email", "name", "is_active", "account_privacy"}
ShareableFields == {"username", "name"}
PublicFields == {"username"}

\* UserReadOnlySerializer(user, custom_fields=...).data: the fields of the view
UserReadOnlySerializer(id, custom_fields) ==
    [username |-> users[id].username,
     fields |-> IF custom_fields # {} THEN custom_fields
                ELSE IF id \in DOMAIN preferences /\ preferences[id] = "all_users"
                THEN ShareableFields
                ELSE PublicFields]

admin_fields_ignoring_view(requester, id, view) ==
    IF users[requester].is_staff \/ users[requester].username = users[id].username
    THEN AdminFields ELSE {}

\* lines 92-96: the custom fields of one resolved user
admin_fields(requester, id, view) ==
    LET has_full_access ==
            users[requester].is_staff \/ users[requester].username = users[id].username
    IN  IF has_full_access /\ view # "shared" THEN AdminFields ELSE {}

Elems(seq) == {seq[i] : i \in 1..Len(seq)}

requested_users_first(usernames) == {i \in Ids : users[i].username = usernames[1]}

\* line 86: User.objects.filter(username__in=usernames)
requested_users(usernames) == {i \in Ids : users[i].username \in Elems(usernames)}

RECURSIVE serialized_users(_, _, _)
\* lines 90-102, over the resolved users in the order of their ids
serialized_users(requester, ids, view) ==
    IF ids = {} THEN <<>>
    ELSE LET i == CHOOSE x \in ids : \A y \in ids : x <= y
         IN <<UserReadOnlySerializer(i, admin_fields(requester, i, view))>>
                \o serialized_users(requester, ids \ {i}, view)

\* lines 83-104: the outcome of the call
get_account_settings(requester, given, view) ==
    LET usernames == IF given = <<>> THEN <<users[requester].username>> ELSE given
        found == requested_users(usernames)
    IN  IF found = {}
        THEN [Call("get", "UserNotFound")
                 EXCEPT !.requester = requester, !.target = given, !.view = view]
        ELSE [Call("get", "ok")
                 EXCEPT !.requester = requester, !.target = given, !.view = view,
                        !.views = serialized_users(requester, found, view)]

GetAccountSettings(requester, given, view) ==
    /\ last' = get_account_settings(requester, given, view)
    /\ UNCHANGED <<store, forum, outbox, tx>>

UsernamesInputs ==
    {<<>>, <<bob>>, <<ghost>>, <<bob, bob2>>, <<bob2, ghost>>, <<bob, bob>>,
     <<md5_hexdigest(str(12) \o bob)>>}

ViewInputs == {"none", "shared"}

----------------------------------------------------------------------------
(* What the rest of the platform does to the records this module reads *)

\* site administration grants staff status
SetStaff(id) ==
    /\ ~users[id].is_staff
    /\ users' = [users EXCEPT ![id].is_staff = TRUE]
    /\ last' = Call("set_staff", "ok")
    /\ UNCHANGED <<profiles, registrations, preferences, pendingEmail, socialAuth,
                   socialMapping, forum, outbox, tx>>

\* third-party sign-in links a provider account, with or without a provider-id mapping
LinkSocialAuth(id, mapped) ==
    /\ id \in DOMAIN profiles
    /\ id \notin socialAuth
    /\ socialAuth' = socialAuth \cup {id}
    /\ socialMapping' = IF mapped THEN socialMapping \cup {id} ELSE socialMapping
    /\ last' = Call("link_social_auth", "ok")
    /\ UNCHANGED <<users, profiles, registrations, preferences, pendingEmail,
                   forum, outbox, tx>>

\* the user posts a thread in a course
PostThread(id, course) ==
    /\ id \in DOMAIN profiles
    /\ Cardinality(DOMAIN threads) < MaxThreads
    /\ threads' = Put(threads, Cardinality(DOMAIN threads) + 1,
                      [course_id |-> course, author_username |-> users[id].username,
                       anonymous |-> FALSE, anonymous_to_peers |-> FALSE])
    /\ forumUsers' = Put(forumUsers, id, users[id].username)
    /\ last' = Call("post_thread", "ok")
    /\ UNCHANGED <<store, retired, outbox, tx>>

----------------------------------------------------------------------------
(* update_account_settings *)

\* AccountUserSerializer.get_read_only_fields() +
\* AccountLegacyProfileSerializer.get_read_only_fields()
ReadOnlyFields == {"username", "is_active"}

\* the writable fields of AccountLegacyProfileSerializer
ProfileFields == {"name", "language_proficiencies"}

\* a value the field schema rejects
Invalid == <<"<invalid>">>

\* the values update_user_preferences accepts for account_privacy
PrivacyValues == {"private", "all_users"}

Without(update, keys) == [f \in DOMAIN update \ keys |-> update[f]]

read_only_first(update) ==
    IF DOMAIN update \cap ReadOnlyFields = {} THEN {}
    ELSE {CHOOSE f \in DOMAIN update \cap ReadOnlyFields : TRUE}

\* lines 160-162
read_only_fields(update) == DOMAIN update \cap ReadOnlyFields

\* lines 175-179: the fields add_serializer_errors reports
serializer_errors(update) ==
    {f \in DOMAIN update \cap ProfileFields : update[f] = Invalid}

\* student_views.validate_new_email(user, new_email): TRUE when it raises ValueError
validate_new_email_raises(id, new_email) ==
    \/ ~validate_email(new_email)
    \/ new_email = users[id].email
    \/ ByEmail(new_email) # {}

\* lines 164-189: the keys of field_errors
field_errors(id, given) ==
    LET update == Without(given, {"email"})
        kept == Without(update, read_only_fields(update))
    IN  read_only_fields(update)
            \cup serializer_errors(kept)
            \cup (IF "email" \in DOMAIN given /\ validate_new_email_raises(id, given["email"])
                  THEN {"email"} ELSE {})

\* lines 191-193: whether AccountValidationError is raised before anything is saved
validation_gate(errors) == errors # {}

is_authorized_or_staff(requester, username) ==
    users[requester].username = username \/ users[requester].is_staff

\* lines 142-143: whether the requester may update the account named `username`
is_authorized(requester, username) == users[requester].username = username

\* lines 203-204: legacy_profile_serializer.save()
serializer_save(profile, update) ==
    [profile EXCEPT
        !.name = IF "name" \in DOMAIN update THEN update["name"] ELSE @,
        !.language_proficiencies =
            IF "language_proficiencies" \in DOMAIN update
            THEN update["language_proficiencies"] ELSE @]

\* lines 225-235: the name change recorded in the profile's meta
record_old_name(profile, old_name, requester) ==
    IF old_name # <<>>
    THEN [profile EXCEPT !.old_names =
              Append(@, [old_name |-> old_name, by |-> users[requester].username])]
    ELSE profile

Mail(to, template) == [to |-> to, template |-> template]

email_step_without_rollback(id, new_email, forced, sendFail, rows, profs) ==
    LET base == [result |-> "ok", at |-> "none", users |-> rows, profiles |-> profs,
                 pendingEmail |-> pendingEmail, outbox |-> outbox]
        old_mail == Mail(rows[id].email, "confirm_email_change")
        new_mail == Mail(new_email, "confirm_email_change")
        changed == [rows EXCEPT ![id].email = new_email, ![id].is_active = TRUE]
    IN  IF forced
        THEN IF \E i \in DOMAIN rows : rows[i].email = new_email
             THEN [base EXCEPT !.result = "AccountUserAlreadyExists", !.at = "email"]
             ELSE IF sendFail = "old"
             THEN [base EXCEPT !.result = "UserAPIInternalError", !.at = "old_email"]
             ELSE IF sendFail = "new"
             THEN [base EXCEPT !.result = "UserAPIInternalError", !.at = "new_email",
                               !.users = changed,
                               !.outbox = Append(outbox, old_mail)]
             ELSE [base EXCEPT !.users = changed,
                               !.outbox = outbox \o <<old_mail, new_mail>>]
        ELSE IF sendFail = "request"
             THEN [base EXCEPT !.result = "AccountUpdateError", !.at = "email_request"]
             ELSE [base EXCEPT !.pendingEmail = Put(pendingEmail, id, new_email),
                               !.outbox = Append(outbox, Mail(new_email, "email_change"))]

\* lines 246-304: the email step. `rows`, `profs` are the tables as saved so far.
email_step(id, new_email, forced, sendFail, rows, profs) ==
    LET base == [result |-> "ok", at |-> "none", users |-> rows, profiles |-> profs,
                 pendingEmail |-> pendingEmail, outbox |-> outbox]
        old_mail == Mail(rows[id].email, "confirm_email_change")
        new_mail == Mail(new_email, "confirm_email_change")
        changed == [rows EXCEPT ![id].email = new_email, ![id].is_active = TRUE]
    IN  IF forced
        THEN IF \E i \in DOMAIN rows : rows[i].email = new_email
             THEN [base EXCEPT !.result = "AccountUserAlreadyExists", !.at = "email"]
             ELSE IF sendFail = "old"
             THEN [base EXCEPT !.result = "UserAPIInternalError", !.at = "old_email"]
             ELSE IF sendFail = "new"
             THEN [base EXCEPT !.result = "UserAPIInternalError", !.at = "new_email",
                               !.outbox = Append(outbox, old_mail)]
             ELSE [base EXCEPT !.users = changed,
                               !.outbox = outbox \o <<old_mail, new_mail>>]
        ELSE \* student_views.do_email_change_request(existing_user, new_email)
             IF sendFail = "request"
             THEN [base EXCEPT !.result = "AccountUpdateError", !.at = "email_request"]
             ELSE [base EXCEPT !.pendingEmail = Put(pendingEmail, id, new_email),
                               !.outbox = Append(outbox, Mail(new_email, "email_change"))]

\* lines 305-310: the migration-completed flag
mark_migrated(profs, id) == [profs EXCEPT ![id].msa_migration = TRUE]

saved_rolled_back(before, saved) == before

\* lines 203-211 and 237-238: the profile table after update_user_preferences
\* raised PreferenceValidationError: the rows saved at line 204 stay saved
saved_before_preferences(before, saved) == saved

\* lines 145-316, for an authorized requester whose update passed the gate
apply_update(requester, id, given, forced, sendFail) ==
    LET update == Without(given, {"email"})
        old_name == IF "name" \in DOMAIN update THEN profiles[id].name ELSE <<>>
        saved == serializer_save(profiles[id], update)
        base == [result |-> "ok", at |-> "none", errs |-> {}, users |-> users,
                 profiles |-> profiles, preferences |-> preferences,
                 pendingEmail |-> pendingEmail, outbox |-> outbox, events |-> <<>>]
        events == IF "language_proficiencies" \in DOMAIN update
                  THEN <<[setting |-> "language_proficiencies",
                          old |-> profiles[id].language_proficiencies,
                          new |-> update["language_proficiencies"]]>>
                  ELSE <<>>
    IN  IF "account_privacy" \in DOMAIN update
           /\ update["account_privacy"] \notin PrivacyValues
        THEN [base EXCEPT !.result = "AccountValidationError", !.at = "preferences",
                          !.errs = {"account_privacy"},
                          !.profiles = saved_before_preferences(profiles,
                                                                Put(profiles, id, saved))]
        ELSE LET prefs == IF "account_privacy" \in DOMAIN update
                          THEN Put(preferences, id, update["account_privacy"])
                          ELSE preferences
                 profs == Put(profiles, id, record_old_name(saved, old_name, requester))
                 mail == IF "email" \in DOMAIN given
                         THEN email_step(id, given["email"], forced, sendFail, users, profs)
                         ELSE [result |-> "ok", at |-> "none", users |-> users,
                               profiles |-> profs, pendingEmail |-> pendingEmail,
                               outbox |-> outbox]
             IN  [base EXCEPT !.result = mail.result, !.at = mail.at,
                              !.users = mail.users,
                              !.profiles = IF forced /\ mail.result = "ok"
                                           THEN mark_migrated(mail.profiles, id)
                                           ELSE mail.profiles,
                              !.preferences = prefs,
                              !.pendingEmail = mail.pendingEmail,
                              !.outbox = mail.outbox,
                              !.events = events]

force_path_without_flag(force_email_update, msa_migration_enabled) == force_email_update

\* lines 246 and 305: force_email_update and msa_migration_enabled
force_path(force_email_update, msa_migration_enabled) ==
    force_email_update /\ msa_migration_enabled

saved_tables_unguarded(errors, before, after) == after

\* lines 191-204: the tables as the call leaves them when field errors were
\* collected: the gate raises before anything is saved
saved_tables(errors, before, after) == IF validation_gate(errors) THEN before ELSE after

UpdateAccountSettings(requester, given, target, force, msa_migration_enabled, sendFail) ==
    LET username == IF target = None THEN users[requester].username ELSE target
        id == get_user_and_profile(username)
        forced == force_path(force, msa_migration_enabled)
        call == [Call("update", "ok") EXCEPT
                    !.requester = requester, !.target = username,
                    !.fields = DOMAIN given, !.update = given,
                    !.email = IF "email" \in DOMAIN given THEN given["email"] ELSE <<>>,
                    !.force_email_update = force,
                    !.msa_migration_enabled = msa_migration_enabled]
    IN  IF id = 0
        THEN /\ last' = [call EXCEPT !.result = "UserNotFound"]
             /\ UNCHANGED <<store, forum, outbox, tx>>
        ELSE IF ~is_authorized(requester, username)
        THEN /\ last' = [call EXCEPT !.result = "UserNotAuthorized"]
             /\ UNCHANGED <<store, forum, outbox, tx>>
        ELSE \E errors \in {field_errors(id, given)} :
             LET out == apply_update(requester, id, given, forced, sendFail)
             IN
             \E kept \in {saved_tables(errors,
                              <<users, profiles, preferences, pendingEmail, outbox>>,
                              <<out.users, out.profiles, out.preferences,
                                out.pendingEmail, out.outbox>>)} :
                /\ Len(kept[5]) <= MaxOutbox
                /\ Len(kept[2][id].old_names) <= MaxHistory
                /\ users' = kept[1]
                /\ profiles' = kept[2]
                /\ preferences' = kept[3]
                /\ pendingEmail' = kept[4]
                /\ outbox' = kept[5]
                /\ last' = IF validation_gate(errors)
                           THEN [call EXCEPT !.result = "AccountValidationError",
                                             !.at = "gate", !.errs = errors]
                           ELSE [call EXCEPT !.result = out.result, !.at = out.at,
                                             !.errs = out.errs, !.forced = forced,
                                             !.events = out.events]
                /\ UNCHANGED <<registrations, socialAuth, socialMapping, forum, tx>>

----------------------------------------------------------------------------
(* update_account_settings in two steps, for calls that run while accounts are *)
(* created: lines 137-242 (resolve, authorize, validate, save), then lines     *)
(* 243-316 (the email step and the migration flag). The call in flight is      *)
(* tx[0].                                                                      *)

UpdateBegin(requester, given, target, force, msa_migration_enabled, sendFail) ==
    LET username == IF target = None THEN users[requester].username ELSE target
        id == get_user_and_profile(username)
        forced == force_path(force, msa_migration_enabled)
        call == [Call("update", "ok") EXCEPT
                    !.requester = requester, !.target = username,
                    !.fields = DOMAIN given, !.update = given,
                    !.email = given["email"],
                    !.forced = forced,
                    !.force_email_update = force,
                    !.msa_migration_enabled = msa_migration_enabled]
    IN  /\ 0 \notin DOMAIN tx
        /\ "email" \in DOMAIN given
        /\ IF id = 0
           THEN /\ last' = [call EXCEPT !.result = "UserNotFound"]
                /\ UNCHANGED <<store, forum, outbox, tx>>
           ELSE IF ~is_authorized(requester, username)
           THEN /\ last' = [call EXCEPT !.result = "UserNotAuthorized"]
                /\ UNCHANGED <<store, forum, outbox, tx>>
           ELSE \E errors \in {field_errors(id, given)} :
                LET out == apply_update(requester, id, Without(given, {"email"}),
                                        FALSE, "none")
                IN
                \E kept \in {saved_tables(errors,
                                 <<users, profiles, preferences, pendingEmail, outbox>>,
                                 <<out.users, out.profiles, out.preferences,
                                   out.pendingEmail, out.outbox>>)} :
                   /\ Len(kept[2][id].old_names) <= MaxHistory
                   /\ users' = kept[1]
                   /\ profiles' = kept[2]
                   /\ preferences' = kept[3]
                   /\ pendingEmail' = kept[4]
                   /\ outbox' = kept[5]
                   /\ IF validation_gate(errors)
                      THEN /\ last' = [call EXCEPT !.result = "AccountValidationError",
                                                   !.at = "gate", !.errs = errors]
                           /\ UNCHANGED tx
                      ELSE IF out.result # "ok"
                      THEN /\ last' = [call EXCEPT !.result = out.result, !.at = out.at,
                                                   !.errs = out.errs]
                           /\ UNCHANGED tx
                      ELSE /\ last' = [call EXCEPT !.op = "update_begin"]
                           /\ tx' = Put(tx, 0, [pc |-> "email", id |-> id,
                                                sendFail |-> sendFail,
                                                call |-> [call EXCEPT !.events = out.events]])
                   /\ UNCHANGED <<registrations, socialAuth, socialMapping, forum>>

UpdateEmailStep ==
    /\ 0 \in DOMAIN tx
    /\ tx[0].pc = "email"
    /\ \E t \in {tx[0]} :
       \E out \in {apply_update(t.call.requester, t.id, [email |-> t.call.email],
                                t.call.forced, t.sendFail)} :
          /\ Len(out.outbox) <= MaxOutbox
          /\ users' = out.users
          /\ profiles' = out.profiles
          /\ preferences' = out.preferences
          /\ pendingEmail' = out.pendingEmail
          /\ outbox' = out.outbox
          /\ last' = [t.call EXCEPT !.result = out.result, !.at = out.at]
          /\ tx' = Drop(tx, 0)
          /\ UNCHANGED <<registrations, socialAuth, socialMapping, forum>>

nameAl == <<"A", "l">>

\* the update maps with at most one value per field, over the given values
RECURSIVE MapsOver(_)
MapsOver(choices) ==
    IF DOMAIN choices = {} THEN {Empty}
    ELSE LET f == CHOOSE x \in DOMAIN choices : TRUE
             rest == MapsOver([x \in DOMAIN choices \ {f} |-> choices[x]])
         IN  rest \cup {Put(m, f, v) : m \in rest, v \in choices[f]}

----------------------------------------------------------------------------
(* Specifications *)

Init ==
    /\ users = Empty
    /\ profiles = Empty
    /\ registrations = {}
    /\ preferences = Empty
    /\ pendingEmail = Empty
    /\ socialAuth = {}
    /\ socialMapping = {}
    /\ forumUsers = Empty
    /\ threads = Empty
    /\ retired = {}
    /\ outbox = <<>>
    /\ tx = Empty
    /\ last = NoCall

\* well-formed and ill-formed credentials, a few of each
FewUsernames == {bob, bob2, <<"b">>}
FewPasswords == {<<"p", "w">>, bob}
FewEmails == {mailA, mailB, <<"a", "b", "c">>}

\* well-formed credentials
Create == \E u \in {bob, bob2}, e \in {mailA, mailB} : CreateAccount(u, <<"p", "w">>, e)

\* two accounts that share neither name nor address
CreatePair == CreateAccount(bob, <<"p", "w">>, mailA) \/ CreateAccount(bob2, <<"p", "w">>, mailB)

Activate == \E k \in KeyInputs : ActivateAccount(k)

DeleteInputs == {<<bob, 12>>, <<bob2, 1>>, <<bob2, 12>>, <<ghost, 1>>}

Delete == \E d \in DeleteInputs : DeleteUserAccount(d[1], d[2], "none")

DeleteBob == DeleteUserAccount(bob, 12, "none")

DeleteForum == \E u \in {bob, ghost}, f \in FailPoints : DeleteUserAccount(u, 1, f)

Get == \E r \in Ids, g \in UsernamesInputs, v \in ViewInputs : GetAccountSettings(r, g, v)

Staff == \E i \in Ids : SetStaff(i)

Social == \E i \in Ids, m \in BOOLEAN : LinkSocialAuth(i, m)

Post == \E i \in Ids, c \in Courses : PostThread(i, c)

GateMaps ==
    MapsOver([email |-> {mailB},
              name |-> {nameAl, Invalid},
              username |-> {ghost},
              account_privacy |-> {"private"}])

ReadOnlyMaps ==
    MapsOver([name |-> {nameAl}, username |-> {ghost}, is_active |-> {TRUE}])

UpdateReadOnly == \E r \in Ids, m \in ReadOnlyMaps :
                      UpdateAccountSettings(r, m, None, FALSE, FALSE, "none")

Update == \E r \in Ids, m \in GateMaps :
              UpdateAccountSettings(r, m, None, FALSE, FALSE, "none")

ForcedMaps == MapsOver([email |-> {mailA, mailB}])

ForcedUpdate == \E r \in Ids, m \in ForcedMaps :
                    UpdateAccountSettings(r, m, None, TRUE, TRUE, "none")

AuthMaps == {[email |-> mailB, name |-> nameAl]}

AuthTargets == {None, bob, bob2, ghost, md5_hexdigest(str(12) \o bob)}

UpdateAuth == \E r \in Ids, m \in AuthMaps, t \in AuthTargets :
                  UpdateAccountSettings(r, m, t, FALSE, FALSE, "none")

PrivacyMaps == {[account_privacy |-> "all_users"]}

UpdatePrivacy == \E r \in Ids, m \in PrivacyMaps :
                     UpdateAccountSettings(r, m, None, FALSE, FALSE, "none")

\* create_account with arguments of every kind
CreateAny == \E u \in UsernameInputs, p \in PasswordInputs, e \in EmailInputs :
                 CreateAccount(u, p, e)

\* the account life cycle: creation, activation, forced email update, deletion
Next == Create \/ Activate \/ ForcedUpdate \/ Delete

Spec == Init /\ [][Next]_vars

\* deletion of accounts of every standing
NextDelete == Create \/ Activate \/ Staff \/ Delete

SpecDelete == Init /\ [][NextDelete]_vars

\* who may update whom
NextAuth == Create \/ Staff \/ Delete \/ UpdateAuth

SpecAuth == Init /\ [][NextAuth]_vars

\* the updater and its validation gate
NextUpdate == CreatePair \/ Update

SpecUpdate == Init /\ [][NextUpdate]_vars

\* updates that name fields the API does not let a caller edit
NextReadOnly == Create \/ Activate \/ UpdateReadOnly

SpecReadOnly == Init /\ [][NextReadOnly]_vars

\* the reader
NextRead == Create \/ Staff \/ DeleteBob \/ UpdatePrivacy \/ Get

SpecRead == Init /\ [][NextRead]_vars

\* deletion and the comments service
NextForum == Create \/ Social \/ Post \/ DeleteForum

SpecForum == Init /\ [][NextForum]_vars

EmailMaps ==
    {[email |-> mailC], [email |-> mailC, name |-> nameAl],
     [email |-> mailC, is_active |-> TRUE], [email |-> mailB]}

UpdateEmail == \E r \in Ids, m \in EmailMaps, force \in BOOLEAN, flag \in BOOLEAN,
                  sendFail \in {"none", "request"} :
                   UpdateAccountSettings(r, m, None, force, flag, sendFail)

\* email changes with and without the forced path
NextEmail == CreatePair \/ UpdateEmail

SpecEmail == Init /\ [][NextEmail]_vars

\* an account, and a second one whose address is the one the first asks for
CreateRival == CreateAccount(bob, <<"p", "w">>, mailA) \/ CreateAccount(bob2, <<"p", "w">>, mailC)

ForcedEmailMaps == {[email |-> mailC], [email |-> mailC, name |-> nameAl]}

BeginForced == \E r \in Ids, m \in ForcedEmailMaps, sendFail \in {"none", "old", "new"} :
                   UpdateBegin(r, m, None, TRUE, TRUE, sendFail)

\* forced email updates while accounts are created
NextForced == CreateRival \/ BeginForced \/ UpdateEmailStep

SpecForced == Init /\ [][NextForced]_vars

PreferenceMaps ==
    MapsOver([name |-> {nameAl},
              language_proficiencies |-> {<<"en">>},
              account_privacy |-> {"all_users", "everyone"}])

UpdatePreferences == \E r \in Ids, m \in PreferenceMaps :
                         UpdateAccountSettings(r, m, None, FALSE, FALSE, "none")

\* updates that the preference subsystem accepts or rejects
NextPreferences == CreatePair \/ UpdatePreferences

SpecPreferences == Init /\ [][NextPreferences]_vars

Check == \E u \in {None, bob, bob2, ghost}, e \in {None, mailA, mailB} :
             CheckAccountExists(u, e)

\* which names and addresses are taken
NextCheck == Create \/ Delete \/ Check

SpecCheck == Init /\ [][NextCheck]_vars

\* the validators of create_account
NextValidate == CreateAny \/ DeleteBob

SpecValidate == Init /\ [][NextValidate]_vars

\* create_account calls that run at once
Begin == \E c \in Callers, u \in FewUsernames, p \in FewPasswords, e \in FewEmails :
             CreateBegin(c, u, p, e)

NextCreate ==
    \/ Begin
    \/ \E c \in Callers : CreateSaveUser(c)
    \/ \E c \in Callers : CreateRegister(c)
    \/ \E c \in Callers : CreateProfile(c)
    \/ \E c \in Callers : CreateReturn(c)

SpecCreate == Init /\ [][NextCreate]_vars

----------------------------------------------------------------------------
(* The updater *)

\* C1: an update that fails with AccountValidationError at the validation gate (a
\* read-only field, a schema failure or a rejected new email) persists nothing: the
\* user rows, profiles (name and old_names log), preferences, pending email changes
\* and outbox are what they were before the call.
C1_GateFailurePersistsNothing ==
    [][(last'.op = "update" /\ last'.result = "AccountValidationError"
            /\ last'.at = "gate")
        => UNCHANGED <<users, profiles, registrations, preferences, pendingEmail,
                       outbox>>]_vars

\* an update whose name was rejected while its email and account_privacy were valid
C1_Witness ==
    /\ last.op = "update"
    /\ last.result = "AccountValidationError"
    /\ last.at = "gate"
    /\ last.errs = {"name"}
    /\ {"email", "account_privacy"} \subseteq last.fields

\* C2: an update by the account's owner that names read-only fields fails with
\* AccountValidationError, the error map has an entry for every read-only field of
\* the update, and the stored username and active flag of no user change.
C2_ReadOnlyFieldsRejected ==
    [][(last'.op = "update" /\ last'.fields \cap ReadOnlyFields # {}
            /\ last'.result \notin {"UserNotFound", "UserNotAuthorized"})
        => /\ last'.result = "AccountValidationError"
           /\ (last'.fields \cap ReadOnlyFields) \subseteq last'.errs
           /\ \A i \in Ids : /\ users'[i].username = users[i].username
                             /\ users'[i].is_active = users[i].is_active]_vars

\* an update naming both read-only fields and a valid name, rejected for both
C2_Witness ==
    /\ last.op = "update"
    /\ last.fields = {"username", "is_active", "name"}
    /\ last.errs = {"username", "is_active"}

\* C3: an update whose target username is not the requester's fails, for a staff
\* requester too: UserNotFound when no user with a profile has the target username,
\* UserNotAuthorized otherwise; no table changes and no mail is sent.
C3_OnlySelfUpdates ==
    [][(last'.op = "update" /\ users[last'.requester].username # last'.target)
        => /\ last'.result = IF get_user_and_profile(last'.target) = 0
                             THEN "UserNotFound" ELSE "UserNotAuthorized"
           /\ UNCHANGED <<users, profiles, registrations, preferences, pendingEmail,
                          outbox>>]_vars

\* a staff requester was refused the update of another account
C3_Witness ==
    /\ last.op = "update"
    /\ last.result = "UserNotAuthorized"
    /\ users[last.requester].is_staff
    /\ get_user_and_profile(last.target) # 0

----------------------------------------------------------------------------
(* The deleter *)

\* C4: when delete_user_account(u) returns, the profile of that user is gone, its
\* row is still there with another username and another email, neither active nor
\* staff; get_account_settings for u raises UserNotFound and the row is found under
\* its new username. For a username that no user with a profile has, the call
\* raises UserNotFound and changes nothing.
C4_SoftDelete ==
    [][last'.op = "delete"
        => LET id == get_user_and_profile(last'.target)
           IN  /\ (id = 0) <=> (last'.result = "UserNotFound")
               /\ last'.result = "UserNotFound" => UNCHANGED <<store, forum, outbox>>
               /\ last'.result = "ok" =>
                     /\ id \notin DOMAIN profiles'
                     /\ id \in DOMAIN users'
                     /\ users'[id].username # users[id].username
                     /\ users'[id].email # users[id].email
                     /\ ~users'[id].is_active
                     /\ ~users'[id].is_staff
                     /\ \A u \in {bob, bob2}, r \in DOMAIN users, v \in ViewInputs :
                            u = last'.target =>
                                get_account_settings(r, <<u>>, v)'.result = "UserNotFound"
                     /\ {i \in DOMAIN users' : users'[i].username = users'[id].username}
                            = {id}]_vars

\* an account was deleted: its row is kept, renamed and without profile
C4_Witness ==
    /\ last.op = "delete"
    /\ last.result = "ok"
    /\ \E r \in registrations :
           /\ r.user \notin DOMAIN profiles
           /\ users[r.user].last_name = "last_deleted"

\* C10: when the anonymization of the discussions fails, at whichever call,
\* delete_user_account still returns True and the scrub is complete: profile and
\* social-auth records deleted, username and email replaced, the names set to the
\* sentinels, the active and staff flags false.
C10_DiscussionFailureSwallowed ==
    [][(last'.op = "delete" /\ last'.at # "none")
        => LET id == get_user_and_profile(last'.target)
           IN  /\ last'.result = "ok"
               /\ id \notin DOMAIN profiles'
               /\ id \notin socialAuth'
               /\ id \notin socialMapping'
               /\ users'[id].username # users[id].username
               /\ users'[id].email # users[id].email
               /\ users'[id].first_name = "first_deleted"
               /\ users'[id].last_name = "last_deleted"
               /\ ~users'[id].is_active
               /\ ~users'[id].is_staff]_vars

\* the deletion of an account with a thread returned although saving the thread failed
C10_Witness ==
    /\ last.op = "delete"
    /\ last.result = "ok"
    /\ last.at = "thread_save"
    /\ \E t \in DOMAIN threads : threads[t].author_username = last.target

----------------------------------------------------------------------------
(* The creator and activation *)

ValidationErrors ==
    {"AccountUsernameInvalid", "AccountPasswordInvalid", "AccountEmailInvalid"}

\* the accounts whose username or email is the one of the last call
Holders(call) ==
    {i \in Ids : users[i].username = call.target \/ users[i].email = call.email}

\* C5 as stated: among the create_account calls that use one username (or one
\* email), every call other than the one that returned a key fails with
\* AccountUserAlreadyExists.
C5_Original ==
    (last.op = "create" /\ last.result # "ok" /\ Holders(last) # {})
        => last.result = "AccountUserAlreadyExists"

\* C5, amended: however create_account calls interleave, no two calls that returned
\* a key used the same username or the same email, a returned key is not empty and
\* is the key of the registration of the new user; every other call whose arguments
\* pass the validators fails with AccountUserAlreadyExists, because a committed row
\* has its username or email; a call that fails writes nothing, and every row has
\* its registration and its profile.
C5_OneKeyPerIdentity ==
    /\ [](/\ \A r1, r2 \in registrations :
                 r1 # r2 => /\ r1.user # r2.user
                            /\ users[r1.user].username # users[r2.user].username
                            /\ users[r1.user].email # users[r2.user].email
          /\ (last.op = "create" /\ last.result = "ok")
                 => /\ Len(last.key) > 0
                    /\ \E r \in registrations :
                           /\ r.activation_key = last.key
                           /\ users[r.user].username = last.target
                           /\ users[r.user].email = last.email
          /\ (last.op = "create" /\ last.result \notin ValidationErrors \cup {"ok"})
                 => /\ last.result = "AccountUserAlreadyExists"
                    /\ Holders(last) # {}
          /\ DOMAIN profiles = Ids
          /\ {r.user : r \in registrations} = Ids
          /\ Cardinality(registrations) = Cardinality(Ids))
    /\ [][(last'.op = "create" /\ last'.result # "ok") => UNCHANGED store]_vars

\* two calls for one email ran at once: one returned a key, the other was refused
C5_Witness ==
    /\ last.op = "create"
    /\ last.result = "AccountUserAlreadyExists"
    /\ \E i \in Ids : users[i].email = last.email /\ users[i].username # last.target
    /\ \E c \in DOMAIN tx : tx[c].pc = "return"

KeyOf(id) == {r.activation_key : r \in {x \in registrations : x.user = id}}

\* the step is activate_account, called with the key of user i, and it succeeded
ActivatedNow(i) ==
    /\ last'.op = "activate"
    /\ last'.result = "ok"
    /\ last'.key \in KeyOf(i)

\* C6 as stated: a created user stays inactive, with one registration and one
\* profile, until activate_account is called with its key.
C6_Original ==
    [][\A i \in Ids :
          (~users[i].is_active /\ i \in DOMAIN profiles /\ ~ActivatedNow(i))
              => /\ ~users'[i].is_active
                 /\ i \in DOMAIN profiles'
                 /\ Cardinality({r \in registrations' : r.user = i}) = 1]_vars

\* C6, amended: a user is created inactive with one registration and one profile;
\* it becomes active only by activate_account with its key or by a forced email
\* update of its own account; it keeps its one registration, and its one profile
\* until delete_user_account is called for it. activate_account with the key of a
\* user makes that user active and changes no other row; with a key of no
\* registration it raises UserNotAuthorized and changes no row.
C6_Activation ==
    [][/\ \A i \in DOMAIN users' \ Ids :
              /\ ~users'[i].is_active
              /\ i \in DOMAIN profiles'
              /\ Cardinality({r \in registrations' : r.user = i}) = 1
       /\ \A i \in Ids :
              /\ Cardinality({r \in registrations' : r.user = i}) = 1
              /\ (~users[i].is_active /\ users'[i].is_active)
                     => \/ ActivatedNow(i)
                        \/ /\ last'.op = "update"
                           /\ last'.forced
                           /\ last'.requester = i
              /\ (i \in DOMAIN profiles /\ i \notin DOMAIN profiles')
                     => /\ last'.op = "delete"
                        /\ last'.target = users[i].username
       /\ (last'.op = "activate" /\ last'.result = "ok")
              => \E i \in Ids :
                     /\ last'.key \in KeyOf(i)
                     /\ users' = [users EXCEPT ![i].is_active = TRUE]
       /\ (last'.op = "activate" /\ last'.result = "UserNotAuthorized")
              => /\ \A r \in registrations : r.activation_key # last'.key
                 /\ UNCHANGED users
       /\ (last'.op = "activate" /\ \A r \in registrations : r.activation_key # last'.key)
              => last'.result = "UserNotAuthorized"]_vars

\* the second of two accounts was activated with its key
C6_Witness ==
    /\ last.op = "activate"
    /\ last.result = "ok"
    /\ Cardinality(Ids) = 2
    /\ \E i \in Ids : ~users[i].is_active /\ i \in DOMAIN profiles
    /\ \E i \in Ids : users[i].is_active /\ last.key \in KeyOf(i)

\* C7: every user whose active flag is true has exactly one profile.
C7_ActiveHasProfile == \A i \in Ids : users[i].is_active => i \in DOMAIN profiles

----------------------------------------------------------------------------
(* The reader *)

\* the users a request names: its usernames, or the requester's own when none
Named(call) ==
    {i \in Ids : IF call.target = <<>> THEN i = call.requester
                 ELSE \E k \in 1..Len(call.target) : call.target[k] = users[i].username}

\* C8: get_account_settings decides the visibility of each resolved user apart: a
\* view has all fields exactly when the requester is that user or is staff and the
\* request did not ask for "shared"; every other view has shareable fields only. The
\* call changes no state.
C8_Visibility ==
    [][last'.op = "get"
        => /\ UNCHANGED <<store, forum, outbox>>
           /\ \A k \in 1..Len(last'.views) :
                  \A i \in ByUsername(last'.views[k].username) :
                      LET full == /\ (i = last'.requester \/ users[last'.requester].is_staff)
                                  /\ last'.view # "shared"
                      IN  /\ full <=> last'.views[k].fields = AdminFields
                          /\ ~full => last'.views[k].fields \subseteq ShareableFields]_vars

\* a staff requester read two accounts in the shared view; one shares its fields
C8_Witness ==
    /\ last.op = "get"
    /\ last.view = "shared"
    /\ users[last.requester].is_staff
    /\ Len(last.views) = 2
    /\ \E k \in 1..2 : last.views[k].fields = ShareableFields
    /\ \E k \in 1..2 : last.views[k].fields = PublicFields

\* C9: get_account_settings raises UserNotFound exactly when no stored user has one
\* of the requested usernames (the requester's own when none is given); otherwise it
\* returns one view for each stored user that has one, and none for the others.
C9_NotFoundIffNoneResolves ==
    last.op = "get"
        => /\ (last.result = "UserNotFound") <=> (Named(last) = {})
           /\ last.result = "ok" =>
                  /\ Len(last.views) = Cardinality(Named(last))
                  /\ {last.views[k].username : k \in 1..Len(last.views)}
                         = {users[i].username : i \in Named(last)}

\* of two requested usernames one is stored: one view, the other is omitted
C9_Witness ==
    /\ last.op = "get"
    /\ last.result = "ok"
    /\ last.target = <<bob2, ghost>>
    /\ Len(last.views) = 1

----------------------------------------------------------------------------
(* The validators of the creator *)

\* C11: create_account validates the username, then the password (which must differ
\* from the username), then the email, before any write: it fails with the error of
\* the first validator that rejects, and then creates no user, registration or
\* profile.
C11_ValidationOrder ==
    [][last'.op = "create" =>
          LET u == UsernameInvalid(last'.target)
              p == PasswordInvalid(last'.password, last'.target)
              e == EmailInvalid(last'.email)
          IN  /\ (last'.result = "AccountUsernameInvalid") <=> u
              /\ (last'.result = "AccountPasswordInvalid") <=> (~u /\ p)
              /\ (last'.result = "AccountEmailInvalid") <=> (~u /\ ~p /\ e)
              /\ (u \/ p \/ e) => UNCHANGED <<store, forum, outbox>>]_vars

\* a password equal to the username was refused before an ill-formed email was looked
\* at, while an account was stored
C11_Witness ==
    /\ last.op = "create"
    /\ last.result = "AccountPasswordInvalid"
    /\ last.password = last.target
    /\ EmailInvalid(last.email)
    /\ Ids # {}

----------------------------------------------------------------------------
(* The existence check *)

\* C12: check_account_exists returns exactly the given fields that a stored user
\* has: "username" iff a username was given and a stored user has it, "email" iff
\* an email was given and a stored user has it, each at most once; a name is
\* reported once create_account has taken it and no longer once delete_user_account
\* has anonymized its user. The call changes no state.
C12_ConflictsAreTakenFields ==
    /\ [](last.op = "check" =>
            /\ ("username" \in Elems(last.conflicts))
                   <=> (last.target # None /\ \E i \in Ids : users[i].username = last.target)
            /\ ("email" \in Elems(last.conflicts))
                   <=> (last.email # None /\ \E i \in Ids : users[i].email = last.email)
            /\ Elems(last.conflicts) \subseteq {"username", "email"}
            /\ Len(last.conflicts) = Cardinality(Elems(last.conflicts)))
    /\ [][last'.op = "check" => UNCHANGED <<store, forum, outbox>>]_vars

\* the name of a deleted account is reported free while the address of another
\* account is reported taken
C12_Witness ==
    /\ last.op = "check"
    /\ last.target = bob
    /\ last.conflicts = <<"email">>
    /\ \E i \in Ids : users[i].username = md5_hexdigest(str(12) \o bob)

----------------------------------------------------------------------------
(* Email changes *)

\* C13: an update_account_settings call that is not made with both force_email_update
\* and the migration flag leaves the stored email and the active flag of every user
\* as they were, whatever the update map holds and whether the call succeeds or
\* fails; a new email it accepts is handed to the deferred confirmation workflow.
C13_EmailChangeIsDeferred ==
    [][(last'.op = "update"
          /\ ~(last'.force_email_update /\ last'.msa_migration_enabled))
        => /\ \A i \in Ids : /\ users'[i].email = users[i].email
                             /\ users'[i].is_active = users[i].is_active
           /\ ("email" \in last'.fields /\ last'.result = "ok")
                  => /\ last'.requester \in DOMAIN pendingEmail'
                     /\ pendingEmail'[last'.requester] = last'.email
           /\ ("email" \notin last'.fields \/ last'.result # "ok")
                  => UNCHANGED pendingEmail]_vars

\* force_email_update was set while the flag was off, with a new name in the same map:
\* the call succeeded and the new address waits for confirmation
C13_Witness ==
    /\ last.op = "update"
    /\ last.result = "ok"
    /\ last.force_email_update
    /\ ~last.msa_migration_enabled
    /\ last.fields = {"email", "name"}
    /\ pendingEmail[last.requester] = mailC
    /\ users[last.requester].email # mailC
    /\ profiles[last.requester].name = nameAl

\* the step ends an authorized update call that asks for a forced email change
ForcedEmailCallEnds ==
    /\ last'.op = "update"
    /\ last'.force_email_update
    /\ last'.msa_migration_enabled
    /\ "email" \in last'.fields
    /\ last'.result \notin {"UserNotFound", "UserNotAuthorized"}

\* the step is the email step of the call in flight (else the call ended before it)
AtEmailStep == 0 \in DOMAIN tx

\* the new address of the call belongs to another account as the step starts
NewEmailTaken == \E i \in Ids : i # last'.requester /\ users[i].email = last'.email

\* a failed call keeps email, active flag and migration flag; a successful one sets
\* the three together
AllOrNothing ==
    LET id == last'.requester
    IN  /\ (AtEmailStep /\ tx[0].sendFail # "none") => last'.result # "ok"
        /\ last'.result # "ok"
               => /\ users'[id].email = users[id].email
                  /\ users'[id].is_active = users[id].is_active
                  /\ profiles'[id].msa_migration = profiles[id].msa_migration
        /\ last'.result = "ok"
               => /\ users'[id].email = last'.email
                  /\ users'[id].is_active
                  /\ profiles'[id].msa_migration

\* C14 as stated: under forced-update mode, if the new email already belongs to some
\* account the call fails with AccountUserAlreadyExists; if a notification cannot be
\* sent the call fails; after a failure email, active flag and migration flag are as
\* before the email step, after success all three are set.
C14_Original ==
    [][ForcedEmailCallEnds
        => /\ NewEmailTaken => last'.result = "AccountUserAlreadyExists"
           /\ AllOrNothing]_vars

\* C14, amended: under forced-update mode, a new email that belongs to some account
\* when the call starts is refused by the validation gate with AccountValidationError
\* (an error under "email", nothing written); one that is taken only when the email
\* step runs fails the call with AccountUserAlreadyExists, and that error is raised in
\* no other case; if a notification cannot be sent the call fails; after a failure
\* email, active flag and migration flag are as before the email step, after success
\* all three are set.
C14_ForcedEmailAllOrNothing ==
    [][ForcedEmailCallEnds
        => /\ (NewEmailTaken /\ AtEmailStep) => last'.result = "AccountUserAlreadyExists"
           /\ (NewEmailTaken /\ ~AtEmailStep)
                  => /\ last'.result = "AccountValidationError"
                     /\ "email" \in last'.errs
                     /\ UNCHANGED <<store, outbox>>
           /\ last'.result = "AccountUserAlreadyExists" => (NewEmailTaken /\ AtEmailStep)
           /\ AllOrNothing]_vars

\* the address was free when the call passed the gate and taken by a new account
\* when the email step ran: the call failed and the target kept its address
C14_Witness ==
    /\ last.op = "update"
    /\ last.forced
    /\ last.result = "AccountUserAlreadyExists"
    /\ users[last.requester].email # last.email
    /\ \E i \in Ids : i # last.requester /\ users[i].email = last.email

----------------------------------------------------------------------------
(* Preferences *)

====
